---- MODULE Spec2Model ----
(***************************************************************************)
(* eslint-plugin-explicit-use-directives: the two lint rules               *)
(*   require-use-directive-first    (the Presence Enforcer)                *)
(*   empty-line-after-use-directive (the Blank-Line Formatter)             *)
(* modelled over file texts that are sequences of characters.  A character *)
(* is a one-character string; offsets are 0-based as in JavaScript, and a  *)
(* range <<s, e>> is half open.                                            *)
(***************************************************************************)
EXTENDS Integers, Sequences, FiniteSets, TLC

VARIABLES
    filename,   \* context.filename, a sequence of characters
    options,    \* options of require-use-directive-first
    mode,       \* option of empty-line-after-use-directive
    text,       \* sourceCode.text, the file as the host holds it now
    report,     \* what the last rule run reported (rule, messageId, fix)
    prevText,   \* the text the last rule run was given
    origText,   \* the text of the file before any fix
    fixes,      \* how many fixes the host has applied to the file
    noRange     \* the statements (by position) the parser gives no range

vars == <<filename, options, mode, text, report, prevText, origText, fixes, noRange>>

----------------------------------------------------------------------------
(* Bounds of the model *)

\* fixes the host applies to one file before it gives up
MaxFixes == 4
\* characters of whitespace drawn between the prologue and the next statement
MaxGap == 3
\* directive statements at the top of an input file
MaxDirs == 2
\* segments of a file path
MaxSegs == 3
\* tokens of an ignore pattern before its tail
MaxGlob == 3
\* characters of the directory part of a path
MaxPath == 4
\* statements of an input file for the prologue scan
MaxStmts == 3

----------------------------------------------------------------------------
(* Strings as sequences of characters *)

QUOTE == "\""

Min(a, b) == IF a < b THEN a ELSE b

\* String.prototype.slice(a, b) for 0 <= a
Slice(s, a, b) == SubSeq(s, Min(a, Len(s)) + 1, Min(b, Len(s)))

\* String.prototype.startsWith
StartsWith(s, p) == Len(p) <= Len(s) /\ SubSeq(s, 1, Len(p)) = p

\* String.prototype.indexOf for a single character: 0-based, -1 when absent
IndexOf(s, c) ==
    IF \E i \in 1..Len(s) : s[i] = c
    THEN (CHOOSE i \in 1..Len(s) : s[i] = c /\ \A j \in 1..(i - 1) : s[j] # c) - 1
    ELSE -1

\* Array.prototype.includes
Includes(arr, x) == \E i \in 1..Len(arr) : arr[i] = x

\* Array.prototype.filter
RECURSIVE Filter(_, _)
Filter(arr, keep) ==
    IF arr = <<>> THEN <<>>
    ELSE (IF Head(arr) \in keep THEN <<Head(arr)>> ELSE <<>>) \o Filter(Tail(arr), keep)

Range(arr) == {arr[i] : i \in 1..Len(arr)}

RECURSIVE Flatten(_)
Flatten(ss) == IF ss = <<>> THEN <<>> ELSE Head(ss) \o Flatten(Tail(ss))

RECURSIVE CountOf(_, _)
CountOf(s, c) ==
    IF s = <<>> THEN 0 ELSE (IF Head(s) = c THEN 1 ELSE 0) + CountOf(Tail(s), c)

----------------------------------------------------------------------------
(* The host's parser: tokens, comments and top-level statements of a text. *)
(* Files are written with a semicolon after each statement.                *)

\* the characters the regular expression class \s matches
WhiteSpace == {" ", "\n", "\r", "\t", "\f"}

LineTerminators == {"\n", "\r"}

\* offset of the end of the line that holds offset i
RECURSIVE LineEnd(_, _)
LineEnd(t, i) ==
    IF i >= Len(t) THEN Len(t)
    ELSE IF t[i + 1] \in LineTerminators THEN i
    ELSE LineEnd(t, i + 1)

\* a line comment, or the shebang line, which the host reads as a comment
IsCommentStart(t, i) ==
    \/ i + 2 <= Len(t) /\ t[i + 1] = "/" /\ t[i + 2] = "/"
    \/ i = 0 /\ Len(t) >= 2 /\ t[1] = "#" /\ t[2] = "!"

\* offset of the first token at or after offset i, Len(t) when there is none
RECURSIVE SkipBlank(_, _)
SkipBlank(t, i) ==
    IF i >= Len(t) THEN Len(t)
    ELSE IF t[i + 1] \in WhiteSpace THEN SkipBlank(t, i + 1)
    ELSE IF IsCommentStart(t, i) THEN SkipBlank(t, LineEnd(t, i))
    ELSE i

\* offset just past the quote that closes a string literal
RECURSIVE CloseQuote(_, _)
CloseQuote(t, j) ==
    IF j >= Len(t) THEN Len(t)
    ELSE IF t[j + 1] = QUOTE THEN j + 1
    ELSE CloseQuote(t, j + 1)

TokenEnd(t, i) == IF t[i + 1] = QUOTE THEN CloseQuote(t, i + 1) ELSE i + 1

TokenType(t, i) ==
    IF t[i + 1] = QUOTE THEN "String"
    ELSE IF t[i + 1] = ";" THEN "Punctuator"
    ELSE "Identifier"

\* the tokens of the text from offset i on, comments left out
RECURSIVE TokensFrom(_, _)
TokensFrom(t, i) ==
    LET s == SkipBlank(t, i)
    IN  IF s >= Len(t) THEN <<>>
        ELSE <<[type |-> TokenType(t, s), range |-> <<s, TokenEnd(t, s)>>]>>
             \o TokensFrom(t, TokenEnd(t, s))

Tokens(t) == TokensFrom(t, 0)

\* sourceCode.getFirstToken(node, { includeComments: false }); <<>> is null
GetFirstToken(t) == IF Tokens(t) = <<>> THEN <<>> ELSE <<Tokens(t)[1]>>

\* index of the token that ends the statement starting at token k
RECURSIVE StmtLast(_, _)
StmtLast(toks, k) ==
    IF k >= Len(toks) \/ toks[k].type = "Punctuator" THEN Min(k, Len(toks))
    ELSE StmtLast(toks, k + 1)

NoDirective == <<"undefined">>

\* a statement that is one string literal is a directive while the
\* statements before it are; its directive field is the raw literal text
RECURSIVE StatementsFrom(_, _, _, _)
StatementsFrom(t, toks, k, inPrologue) ==
    IF k > Len(toks) THEN <<>>
    ELSE LET e == StmtLast(toks, k)
             lit == /\ toks[k].type = "String"
                    /\ \/ e = k
                       \/ e = k + 1 /\ toks[e].type = "Punctuator"
             dir == IF inPrologue /\ lit
                    THEN Slice(t, toks[k].range[1] + 1, toks[k].range[2] - 1)
                    ELSE NoDirective
         IN  <<[range |-> <<toks[k].range[1], toks[e].range[2]>>, directive |-> dir]>>
             \o StatementsFrom(t, toks, e + 1, inPrologue /\ lit)

\* node.body of the Program node
Body(t) == StatementsFrom(t, Tokens(t), 1, TRUE)

\* a statement without a range: stmt.range is undefined
NoRange == <<>>

\* node.body as the rule receives it: the statements at the positions in nr
\* carry no range
NodeBody(t, nr) ==
    [i \in 1..Len(Body(t)) |->
        IF i \in nr THEN [Body(t)[i] EXCEPT !.range = NoRange] ELSE Body(t)[i]]

\* JavaScript truthiness of stmt.directive: undefined and "" are falsy
Truthy(dir) == dir # NoDirective /\ dir # <<>>

----------------------------------------------------------------------------
(* Reports and fixes *)

NoFix == <<>>

NoReport == [messageId |-> "none", fix |-> NoFix]

\* fixer.replaceTextRange(range, text)
ReplaceTextRange(range, txt) == [range |-> range, text |-> txt]

\* fixer.insertTextAfterRange(range, text): inserts at the end of the range
InsertTextAfterRange(range, txt) == [range |-> <<range[2], range[2]>>, text |-> txt]

\* fixer.insertTextBefore(token, text): inserts at the start of the token
InsertTextBefore(token, txt) ==
    [range |-> <<token.range[1], token.range[1]>>, text |-> txt]

\* the host applying one fix to the text
ApplyFix(t, fix) ==
    Slice(t, 0, fix.range[1]) \o fix.text \o Slice(t, fix.range[2], Len(t))

\* the host applies a fix unless its range is a negative one
HostApplies(fix) == fix # NoFix /\ fix.range[1] <= fix.range[2]

----------------------------------------------------------------------------
(* empty-line-after-use-directive *)

\* the ranges of the leading directive statements
RECURSIVE FormatterDirectives(_)
FormatterDirectives(body) ==
    IF body = <<>> THEN <<>>
    ELSE IF Truthy(Head(body).directive)
         THEN (IF Head(body).range # NoRange
               THEN <<[start |-> Head(body).range[1], end |-> Head(body).range[2]]>>
               ELSE <<>>)
              \o FormatterDirectives(Tail(body))
         ELSE <<>>

\* /^\s*$/.test(leadingText) && leadingText.length > 0
LeadingWhitespaceOnly(leadingText) ==
    (\A i \in 1..Len(leadingText) : leadingText[i] \in WhiteSpace) /\ Len(leadingText) > 0

\* nextStmt?.range?.[0] ?? sourceCode.text?.length ?? gapStart
GapEnd(t, body, nDirectives) ==
    IF nDirectives + 1 <= Len(body) /\ body[nDirectives + 1].range # NoRange
    THEN body[nDirectives + 1].range[1]
    ELSE Len(t)

\* gapText.replace(/\r\n/g, "\n")
RECURSIVE NormalizeNewlines(_)
NormalizeNewlines(s) ==
    IF s = <<>> THEN <<>>
    ELSE IF Len(s) >= 2 /\ s[1] = "\r" /\ s[2] = "\n"
         THEN <<"\n">> \o NormalizeNewlines(SubSeq(s, 3, Len(s)))
         ELSE <<Head(s)>> \o NormalizeNewlines(Tail(s))

BeginsWithNewline(normalized) == StartsWith(normalized, <<"\n">>)

NewlineCount(normalized) == CountOf(normalized, "\n")

\* /[^\n\r\t \f\v]/.test(normalized)
HasNonBlank(normalized) ==
    \E i \in 1..Len(normalized) : normalized[i] \notin {"\n", "\r", "\t", " ", "\f"}

\* mode "always": the two branches that report expectedBlank
AlwaysReports(normalized) ==
    IF ~(BeginsWithNewline(normalized) /\ NewlineCount(normalized) >= 2) THEN TRUE
    ELSE NewlineCount(normalized) # 2 \/ HasNonBlank(normalized)

\* mode "never": the branch that reports unexpectedBlank
NeverReports(normalized) ==
    \/ ~BeginsWithNewline(normalized)
    \/ NewlineCount(normalized) # 1
    \/ HasNonBlank(normalized)

\* the fix of the leading-whitespace report
LeadingFix(first) == ReplaceTextRange(<<0, first.start>>, <<>>)

\* the fix of a gap report
GapFix(gapStart, gapEnd, m) ==
    ReplaceTextRange(<<gapStart, gapEnd>>, IF m = "always" THEN <<"\n", "\n">> ELSE <<"\n">>)

\* the gap check of the Program handler
GapCheck(t, body, directives, m) ==
    LET last == directives[Len(directives)]
        gapStart == last.end
        gapEnd == GapEnd(t, body, Len(directives))
        gapText == Slice(t, gapStart, gapEnd)
        normalized == NormalizeNewlines(gapText)
    IN  IF m = "always"
        THEN IF AlwaysReports(normalized)
             THEN [messageId |-> "expectedBlank", fix |-> GapFix(gapStart, gapEnd, m)]
             ELSE NoReport
        ELSE IF NeverReports(normalized)
             THEN [messageId |-> "unexpectedBlank", fix |-> GapFix(gapStart, gapEnd, m)]
             ELSE NoReport

\* EmptyLineProgram with the gap check before the leading-whitespace check
EmptyLineProgramGapFirst(t, body, m) ==
    LET directives == FormatterDirectives(body)
    IN  IF Len(directives) = 0 THEN NoReport
        ELSE LET first == directives[1]
                 leadingText == Slice(t, 0, first.start)
                 gap == GapCheck(t, body, directives, m)
             IN  IF gap # NoReport THEN gap
                 ELSE IF LeadingWhitespaceOnly(leadingText)
                      THEN [messageId |-> "expectedBlank", fix |-> LeadingFix(first)]
                      ELSE NoReport

\* the Program handler of empty-line-after-use-directive
EmptyLineProgram(t, body, m) ==
    LET directives == FormatterDirectives(body)
    IN  IF Len(directives) = 0 THEN NoReport
        ELSE LET first == directives[1]
                 leadingText == Slice(t, 0, first.start)
             IN  IF LeadingWhitespaceOnly(leadingText)
                 THEN [messageId |-> "expectedBlank", fix |-> LeadingFix(first)]
                 ELSE GapCheck(t, body, directives, m)

----------------------------------------------------------------------------
(* require-use-directive-first: the Program handler *)

\* the values of the leading directive statements
RECURSIVE EnforcerDirectives(_)
EnforcerDirectives(body) ==
    IF body = <<>> THEN <<>>
    ELSE IF Truthy(Head(body).directive)
         THEN <<Head(body).directive>> \o EnforcerDirectives(Tail(body))
         ELSE <<>>

HasExact(directives, directive) == Includes(directives, directive)

HasOneOf(directives, requireOneOf) ==
    IF Len(requireOneOf) > 0
    THEN \E i \in 1..Len(requireOneOf) : Includes(directives, requireOneOf[i])
    ELSE FALSE

AllowedDirectives(directives, ignoredDirectives) ==
    Filter(directives, Range(directives) \ Range(ignoredDirectives))

UsePrefix == <<"u", "s", "e", " ">>

HasAnyUse(allowedDirectives) ==
    \E i \in 1..Len(allowedDirectives) : StartsWith(allowedDirectives[i], UsePrefix)

\* Accepts with requireExact looked at before requireOneOf
AcceptsExactFirst(directives, opts) ==
    IF opts.requireExact
    THEN HasExact(directives, opts.directive)
    ELSE IF Len(opts.requireOneOf) > 0
         THEN HasOneOf(directives, opts.requireOneOf)
         ELSE HasAnyUse(AllowedDirectives(directives, opts.ignoredDirectives))

\* Precedence: requireOneOf -> requireExact -> any non-ignored "use ..."
Accepts(directives, opts) ==
    IF Len(opts.requireOneOf) > 0
    THEN HasOneOf(directives, opts.requireOneOf)
    ELSE IF opts.requireExact
         THEN HasExact(directives, opts.directive)
         ELSE HasAnyUse(AllowedDirectives(directives, opts.ignoredDirectives))

\* `"${directive}";\n`
InsertionText(directive) == <<QUOTE>> \o directive \o <<QUOTE, ";", "\n">>

\* newlineIdx === -1 ? fullText.length : newlineIdx + 1
ShebangLen(fullText) ==
    LET newlineIdx == IndexOf(fullText, "\n")
    IN  IF newlineIdx = -1 THEN Len(fullText) ELSE newlineIdx + 1

\* the fix of the addDirective report
InsertionFix(fullText, directive) ==
    LET insertionText == InsertionText(directive)
        firstToken == GetFirstToken(fullText)
    IN  IF StartsWith(fullText, <<"#", "!">>)
        THEN InsertTextAfterRange(<<0, ShebangLen(fullText)>>, insertionText)
        ELSE IF firstToken # <<>>
             THEN InsertTextBefore(firstToken[1], insertionText)
             ELSE InsertTextAfterRange(<<0, 0>>, insertionText)

\* the Program handler of require-use-directive-first
RequireProgram(t, body, opts) ==
    IF Accepts(EnforcerDirectives(body), opts) THEN NoReport
    ELSE [messageId |-> "addDirective", fix |-> InsertionFix(t, opts.directive)]

----------------------------------------------------------------------------
(* require-use-directive-first: create(), the path and extension filter *)

\* path.sep of the platform
PathSep == "/"

\* s.split(path.sep).join("/")
ToPosix(s) == [i \in 1..Len(s) |-> IF s[i] = PathSep THEN "/" ELSE s[i]]

\* "+.^$|()[]{}".includes(ch)
RegExpMeta == {"+", ".", "^", "$", "|", "(", ")", "[", "]", "{", "}"}

\* index of the last "*" of the run of "*" that holds index i
RECURSIVE LastStar(_, _)
LastStar(g, i) == IF i + 1 <= Len(g) /\ g[i + 1] = "*" THEN LastStar(g, i + 1) ELSE i

\* the body of the loop of globToRegExp from index i (1-based) on; the
\* regular expression is the sequence of its pieces:
\*   any = .*    seg = [^/]*    one = [^/]    lit = the character, escaped or not
RECURSIVE GlobFrom(_, _)
GlobFrom(g, i) ==
    IF i > Len(g) THEN <<>>
    ELSE IF g[i] = "*"
         THEN IF i + 1 <= Len(g) /\ g[i + 1] = "*"
              THEN LET j == LastStar(g, i)
                       k == IF j + 1 <= Len(g) /\ g[j + 1] = "/" THEN j + 1 ELSE j
                   IN  <<[kind |-> "any", ch |-> "", escaped |-> FALSE]>> \o GlobFrom(g, k + 1)
              ELSE <<[kind |-> "seg", ch |-> "", escaped |-> FALSE]>> \o GlobFrom(g, i + 1)
         ELSE IF g[i] = "?"
              THEN <<[kind |-> "one", ch |-> "", escaped |-> FALSE]>> \o GlobFrom(g, i + 1)
              ELSE <<[kind |-> "lit", ch |-> g[i], escaped |-> g[i] \in RegExpMeta]>>
                   \o GlobFrom(g, i + 1)

GlobToRegExp(glob) == GlobFrom(ToPosix(glob), 1)

CompilePatterns(patterns) == [i \in 1..Len(patterns) |-> GlobToRegExp(patterns[i])]

\* whether pieces k.. of the expression match s from offset i to its end
\* (the expression is anchored by ^ and $; "." matches no line terminator)
RECURSIVE MatchFrom(_, _, _, _)
MatchFrom(re, k, s, i) ==
    IF k > Len(re) THEN i = Len(s)
    ELSE IF re[k].kind = "lit"
         THEN i < Len(s) /\ s[i + 1] = re[k].ch /\ MatchFrom(re, k + 1, s, i + 1)
    ELSE IF re[k].kind = "one"
         THEN i < Len(s) /\ s[i + 1] # "/" /\ MatchFrom(re, k + 1, s, i + 1)
    ELSE IF re[k].kind = "seg"
         THEN \E j \in i..Len(s) :
                 /\ \A m \in (i + 1)..j : s[m] # "/"
                 /\ MatchFrom(re, k + 1, s, j)
    ELSE \E j \in i..Len(s) :
            /\ \A m \in (i + 1)..j : s[m] \notin LineTerminators
            /\ MatchFrom(re, k + 1, s, j)

\* re.test(s)
RegExpTest(re, s) == MatchFrom(re, 1, s, 0)

PathMatchesAny(filePath, regs) ==
    IF Len(regs) = 0 THEN FALSE
    ELSE LET posix == ToPosix(filePath)
         IN  \E i \in 1..Len(regs) : RegExpTest(regs[i], posix)

\* String.prototype.toLowerCase over the letters of the model's alphabet
LowerChar(c) ==
    CASE c = "J" -> "j"
      [] c = "S" -> "s"
      [] c = "T" -> "t"
      [] c = "X" -> "x"
      [] OTHER -> c

ToLowerCase(s) == [i \in 1..Len(s) |-> LowerChar(s[i])]

\* the class [a-z0-9] over the letters of the model's alphabet
LowerAlnum == {"a", "c", "d", "e", "f", "j", "l", "m", "n", "o", "p", "s", "t", "u", "x",
               "0", "1"}

\* filename.toLowerCase().match(/\.([a-z0-9]+)$/)?.[1] ?? ""
Ext(fn) ==
    LET low == ToLowerCase(fn)
        dots == {i \in 1..Len(low) :
                    /\ low[i] = "."
                    /\ i < Len(low)
                    /\ \A m \in (i + 1)..Len(low) : low[m] \in LowerAlnum}
    IN  IF dots = {} THEN <<>>
        ELSE LET d == CHOOSE i \in dots : \A j \in dots : i <= j
             IN  SubSeq(low, d + 1, Len(low))

BASE_EXTENSIONS == <<<<"j", "s", "x">>, <<"t", "s", "x">>>>

\* EffectiveExtensions that keeps the configured entries as they are written
EffectiveExtensionsCaseSensitive(extensions) ==
    IF Len(extensions) > 0
    THEN {extensions[i] : i \in 1..Len(extensions)}
    ELSE Range(BASE_EXTENSIONS)

EffectiveExtensions(extensions) ==
    IF Len(extensions) > 0
    THEN {ToLowerCase(extensions[i]) : i \in 1..Len(extensions)}
    ELSE Range(BASE_EXTENSIONS)

NodeModulesPattern ==
    <<"*", "*", "/", "n", "o", "d", "e", "_", "m", "o", "d", "u", "l", "e", "s", "/", "*", "*">>

\* EffectiveIgnorePatterns that never appends the node_modules pattern
EffectiveIgnorePatternsAsConfigured(opts) == opts.ignore

EffectiveIgnorePatterns(opts) ==
    IF opts.includeNodeModules THEN opts.ignore
    ELSE Append(opts.ignore, NodeModulesPattern)

\* FilenameUsable that takes every non-empty name for a real path
FilenameUsableNonEmpty(fn) == fn # <<>>

\* Boolean(filename) && !filename.startsWith("<")
FilenameUsable(fn) == fn # <<>> /\ ~StartsWith(fn, <<"<">>)

\* create() with the path and extension filter before the test of the
\* directive option
CreateFilterFirst(fn, opts) ==
    IF FilenameUsable(fn)
       /\ (\/ PathMatchesAny(fn, CompilePatterns(EffectiveIgnorePatterns(opts)))
           \/ Ext(fn) \notin EffectiveExtensions(opts.extensions))
    THEN "skip"
    ELSE IF ~Truthy(opts.directive) THEN "throw" ELSE "listen"

\* create(): "throw" when the directive option is falsy (undefined, written
\* NoDirective, or the empty string), "skip" when it returns no listener,
\* "listen" when it returns the Program handler
Create(fn, opts) ==
    IF ~Truthy(opts.directive) THEN "throw"
    ELSE IF FilenameUsable(fn)
         THEN IF PathMatchesAny(fn, CompilePatterns(EffectiveIgnorePatterns(opts)))
              THEN "skip"
              ELSE IF Ext(fn) \notin EffectiveExtensions(opts.extensions)
                   THEN "skip"
                   ELSE "listen"
         ELSE "listen"

\* one run of require-use-directive-first on a file
RequireRule(fn, t, opts) ==
    LET c == Create(fn, opts)
    IN  IF c = "throw" THEN [messageId |-> "throw", fix |-> NoFix]
        ELSE IF c = "skip" THEN NoReport
        ELSE RequireProgram(t, Body(t), opts)

\* one run of empty-line-after-use-directive on a file some of whose
\* statements carry no range
EmptyLineRuleOn(t, nr, m) == EmptyLineProgram(t, NodeBody(t, nr), m)

\* one run of empty-line-after-use-directive on a file
EmptyLineRule(t, m) == EmptyLineProgram(t, Body(t), m)

----------------------------------------------------------------------------
(* The host: it runs a rule on the file and applies the fix the rule gives *)

\* the host runs require-use-directive-first and applies its fix
LintRequire ==
    /\ fixes < MaxFixes
    /\ LET r == RequireRule(filename, text, options)
       IN  /\ report' = [rule |-> "require", messageId |-> r.messageId, fix |-> r.fix]
           /\ text' = IF HostApplies(r.fix) THEN ApplyFix(text, r.fix) ELSE text
           /\ fixes' = IF HostApplies(r.fix) THEN fixes + 1 ELSE fixes
    /\ prevText' = text
    /\ UNCHANGED <<filename, options, mode, origText, noRange>>

\* the host runs empty-line-after-use-directive and applies its fix
LintEmptyLine ==
    /\ fixes < MaxFixes
    /\ LET r == EmptyLineRuleOn(text, noRange, mode)
       IN  /\ report' = [rule |-> "empty-line", messageId |-> r.messageId, fix |-> r.fix]
           /\ text' = IF HostApplies(r.fix) THEN ApplyFix(text, r.fix) ELSE text
           /\ fixes' = IF HostApplies(r.fix) THEN fixes + 1 ELSE fixes
    /\ prevText' = text
    /\ UNCHANGED <<filename, options, mode, origText, noRange>>

----------------------------------------------------------------------------
(* Input files and options *)

UseClient == <<"u", "s", "e", " ", "c">>

UseServer == <<"u", "s", "e", " ", "s">>

\* a directive that is no "use ..." directive
NgInject == <<"n", "g">>

DirectiveValues == {UseClient, UseServer, NgInject}

\* the sequences over S of length at most n
SeqsUpTo(S, n) == UNION {[1..k -> S] : k \in 0..n}

\* a directive statement, written with double quotes and its semicolon
DirectiveStatement(d) == <<QUOTE>> \o d \o <<QUOTE, ";">>

\* directive statements, one per line
RECURSIVE PrologueText(_)
PrologueText(ds) ==
    IF ds = <<>> THEN <<>>
    ELSE DirectiveStatement(Head(ds)) \o (IF Len(ds) > 1 THEN <<"\n">> ELSE <<>>)
         \o PrologueText(Tail(ds))

ShebangLine == <<"#", "!", "s">>

LineComment == <<"/", "/", "c">>

CodeStatement == <<"x", ";">>

\* what a file may begin with: nothing, a shebang line with or without its
\* newline, blank space, a comment
Leads ==
    {<<>>, <<"\n">>, <<" ">>, LineComment \o <<"\n">>,
     ShebangLine, ShebangLine \o <<"\n">>, ShebangLine \o <<"\n", "\n">>,
     ShebangLine \o <<"\n", " ">>, ShebangLine \o <<"\n">> \o LineComment \o <<"\n">>}

\* files for the Presence Enforcer: a lead, a prologue, the code
EnforcerTexts ==
    {lead \o PrologueText(ds) \o (IF ds = <<>> THEN <<>> ELSE <<"\n">>) \o code :
        lead \in Leads, ds \in SeqsUpTo(DirectiveValues, MaxDirs),
        code \in {<<>>, CodeStatement}}

EnforcerOptions ==
    [directive : {UseClient, NgInject},
     ignore : {<<>>},
     ignoredDirectives : {<<>>, <<UseClient>>, <<UseServer>>},
     requireExact : BOOLEAN,
     requireOneOf : {<<>>, <<UseClient>>, <<UseServer, NgInject>>},
     extensions : {<<>>},
     includeNodeModules : {FALSE}]

CheckedFile == <<"f", ".", "t", "s", "x">>

NoRun == [rule |-> "none", messageId |-> "none", fix |-> NoFix]

Init ==
    /\ filename = CheckedFile
    /\ options \in EnforcerOptions
    /\ mode = "always"
    /\ text \in EnforcerTexts
    /\ prevText = text
    /\ origText = text
    /\ report = NoRun
    /\ fixes = 0
    /\ noRange = {}

Next == LintRequire

\* the Presence Enforcer alone, run again and again on one file
Spec == Init /\ [][Next]_vars

DefaultOptions ==
    [directive |-> UseClient, ignore |-> <<>>, ignoredDirectives |-> <<>>,
     requireExact |-> FALSE, requireOneOf |-> <<>>, extensions |-> <<>>,
     includeNodeModules |-> FALSE]

\* files for the two rules together: a lead, a prologue, a gap, the code
BothTexts ==
    {lead \o PrologueText(ds) \o gap \o code :
        lead \in Leads, ds \in SeqsUpTo({UseClient, NgInject}, MaxDirs),
        gap \in {<<>>, <<"\n">>, <<"\n", "\n">>}, code \in {<<>>, CodeStatement}}

InitBoth ==
    /\ filename = CheckedFile
    /\ options = DefaultOptions
    /\ mode \in {"always", "never"}
    /\ text \in BothTexts
    /\ prevText = text
    /\ origText = text
    /\ report = NoRun
    /\ fixes = 0
    /\ noRange = {}

NextBoth == LintRequire \/ LintEmptyLine

\* both rules, run in any order on one file until the host stops
SpecBoth == InitBoth /\ [][NextBoth]_vars

\* what the gap after the prologue is made of
GapPieces == {<<"\n">>, <<" ">>, <<"\r", "\n">>, LineComment \o <<"\n">>}

Gaps == {Flatten(ps) : ps \in SeqsUpTo(GapPieces, MaxGap)}

\* files for the Formatter: a lead, a prologue, a gap, the code
FormatterTexts ==
    {lead \o PrologueText(ds) \o gap \o code :
        lead \in {<<>>, <<"\n">>, <<" ">>, LineComment \o <<"\n">>},
        ds \in SeqsUpTo({UseClient}, MaxDirs),
        gap \in Gaps, code \in {<<>>, CodeStatement}}

InitFmt ==
    /\ filename = CheckedFile
    /\ options = DefaultOptions
    /\ mode \in {"always", "never"}
    /\ text \in FormatterTexts
    /\ prevText = text
    /\ origText = text
    /\ report = NoRun
    /\ fixes = 0
    /\ noRange = {}

NextFmt == LintEmptyLine

\* the Formatter alone, run again and again on one file
SpecFmt == InitFmt /\ [][NextFmt]_vars

NodeModulesDir == SubSeq(NodeModulesPattern, 4, 15)

PathDirs == {<<"a">>, NodeModulesDir, <<"d", ".", "j", "s">>}

PathFiles ==
    {<<"f", ".", "t", "s", "x">>, <<"f", ".", "T", "s", "X">>, <<"f", ".", "j", "s", "x">>,
     <<"f", ".", "j", "s">>, <<"f", ".", "c", "+">>, <<"f">>}

RECURSIVE JoinDirs(_)
JoinDirs(dirs) ==
    IF dirs = <<>> THEN <<>> ELSE Head(dirs) \o <<"/">> \o JoinDirs(Tail(dirs))

\* absolute and relative paths of at most MaxSegs segments, and the names
\* the host gives to text that comes from no file
Filenames ==
    {root \o JoinDirs(dirs) \o file :
        root \in {<<>>, <<"/">>}, dirs \in SeqsUpTo(PathDirs, MaxSegs - 1),
        file \in PathFiles}
    \cup {<<>>, <<"<", "i", ">">>}

PathOptions ==
    [directive : {UseClient},
     ignore : {<<>>, <<<<"*", "*", "/", "a", "/", "*", "*">>>>,
               <<<<"*", ".", "t", "s", "x">>, <<"/", "?", "/", "f", ".", "j", "s">>>>},
     ignoredDirectives : {<<>>},
     requireExact : {FALSE},
     requireOneOf : {<<>>},
     extensions : {<<>>, <<<<"j", "s">>>>, <<<<"T", "S", "X">>>>, <<<<"c", "+">>>>,
                   <<<<"J", "s">>, <<"t", "s", "x">>>>},
     includeNodeModules : BOOLEAN]

InitPath ==
    /\ filename \in Filenames
    /\ options \in PathOptions
    /\ mode = "always"
    /\ text \in {CodeStatement, DirectiveStatement(UseClient) \o <<"\n">> \o CodeStatement}
    /\ prevText = text
    /\ origText = text
    /\ report = NoRun
    /\ fixes = 0
    /\ noRange = {}

NextPath == LintRequire

\* the Presence Enforcer on files of many paths
SpecPath == InitPath /\ [][NextPath]_vars

\* tokens of the ignore patterns: *, **/, ?, a letter, the separator
GlobTokens == {<<"*">>, <<"*", "*", "/">>, <<"?">>, <<"p">>, <<"/">>}

\* what an ignore pattern ends with: ** as in **/pages/**, or the file name
GlobTails == {<<"*", "*">>, <<"f", ".", "t", "s", "x">>}

GlobPatterns ==
    {Flatten(toks) \o tail : toks \in SeqsUpTo(GlobTokens, MaxGlob), tail \in GlobTails}

\* the directory part of a path: p stands for pages, mp for mypages
GlobDirs == SeqsUpTo({"p", "m", "/"}, MaxPath)

GlobPaths == {dir \o CheckedFile : dir \in GlobDirs}

GlobOptions ==
    {[DefaultOptions EXCEPT !.ignore = <<pat>>, !.includeNodeModules = TRUE] :
        pat \in GlobPatterns}

InitGlob ==
    /\ filename \in GlobPaths
    /\ options \in GlobOptions
    /\ mode = "always"
    /\ text = CodeStatement
    /\ prevText = text
    /\ origText = text
    /\ report = NoRun
    /\ fixes = 0
    /\ noRange = {}

NextGlob == LintRequire

\* the Presence Enforcer on files of many paths under many ignore patterns
SpecGlob == InitGlob /\ [][NextGlob]_vars

\* the statements of the files for the prologue scan: a "use ..." directive,
\* the empty directive, another directive, a statement that is no directive
PrologueStatements ==
    {DirectiveStatement(UseClient), DirectiveStatement(<<>>), DirectiveStatement(NgInject),
     CodeStatement}

RECURSIVE Lines(_)
Lines(stmts) == IF stmts = <<>> THEN <<>> ELSE Head(stmts) \o <<"\n">> \o Lines(Tail(stmts))

\* files of at most MaxStmts statements, one per line
PrologueTexts == {Lines(stmts) : stmts \in SeqsUpTo(PrologueStatements, MaxStmts)}

InitPrologue ==
    /\ filename = CheckedFile
    /\ options = DefaultOptions
    /\ mode \in {"always", "never"}
    /\ text \in PrologueTexts
    /\ prevText = text
    /\ origText = text
    /\ report = NoRun
    /\ fixes = 0
    /\ noRange = {}

NextPrologue == LintRequire \/ LintEmptyLine

\* both rules on files whose statements are directives, among them the
\* empty one, and code in any order
SpecPrologue == InitPrologue /\ [][NextPrologue]_vars

\* paths for the setup check: a checked file, a file an ignore pattern
\* matches, a file under node_modules, a file of another extension, and the
\* names of text that comes from no file
SetupFilenames ==
    {CheckedFile, <<"a", "/">> \o CheckedFile, NodeModulesDir \o <<"/">> \o CheckedFile,
     <<"f", ".", "j", "s">>, <<"<", "i", ">">>, <<>>}

\* the directive option missing, empty, and given
SetupOptions ==
    {[DefaultOptions EXCEPT !.directive = d, !.ignore = ig] :
        d \in {NoDirective, <<>>, UseClient},
        ig \in {<<>>, <<<<"*", "*", "/", "a", "/", "*", "*">>>>}}

SetupTexts ==
    {<<>>, CodeStatement, DirectiveStatement(UseClient) \o <<"\n">> \o CodeStatement,
     <<" ">> \o DirectiveStatement(UseClient) \o CodeStatement}

InitSetup ==
    /\ filename \in SetupFilenames
    /\ options \in SetupOptions
    /\ mode \in {"always", "never"}
    /\ text \in SetupTexts
    /\ prevText = text
    /\ origText = text
    /\ report = NoRun
    /\ fixes = 0
    /\ noRange = {}

NextSetup == LintRequire \/ LintEmptyLine

\* both rules under options with and without the directive option
SpecSetup == InitSetup /\ [][NextSetup]_vars

\* files for the rules under a parser that leaves ranges out: a prologue,
\* a gap, the code
RangeTexts ==
    {PrologueText(ds) \o gap \o code :
        ds \in SeqsUpTo({UseClient, NgInject}, MaxDirs),
        gap \in {<<>>, <<"\n">>, <<"\n", "\n">>}, code \in {<<>>, CodeStatement}}

InitRange ==
    /\ filename = CheckedFile
    /\ options = DefaultOptions
    /\ mode \in {"always", "never"}
    /\ text \in RangeTexts
    /\ prevText = text
    /\ origText = text
    /\ report = NoRun
    /\ fixes = 0
    /\ noRange \in SUBSET (1..(MaxDirs + 1))

NextRange == LintRequire \/ LintEmptyLine

\* both rules on statement lists in which some statements carry no range
SpecRange == InitRange /\ [][NextRange]_vars

\* a shebang line that ends with a carriage return alone
ShebangLineCR == ShebangLine \o <<"\r">>

\* files on which both rules may report in one pass: a lead, a prologue
\* the Presence Enforcer does not accept, a gap, the code
PassTexts ==
    {lead \o PrologueText(ds) \o gap \o code :
        lead \in Leads \cup {ShebangLineCR},
        ds \in SeqsUpTo({UseServer, NgInject}, MaxDirs),
        gap \in SeqsUpTo({"\n"}, MaxGap), code \in {<<>>, CodeStatement}}

PassOptions ==
    {DefaultOptions, [DefaultOptions EXCEPT !.requireExact = TRUE],
     [DefaultOptions EXCEPT !.ignoredDirectives = <<UseServer>>]}

InitPass ==
    /\ filename = CheckedFile
    /\ options \in PassOptions
    /\ mode \in {"always", "never"}
    /\ text \in PassTexts
    /\ prevText = text
    /\ origText = text
    /\ report = NoRun
    /\ fixes = 0
    /\ noRange = {}

NextPass == LintRequire \/ LintEmptyLine

\* both rules in one pass over files that hold directives the Presence
\* Enforcer does not accept
SpecPass == InitPass /\ [][NextPass]_vars

----------------------------------------------------------------------------
(* What the claims speak of *)

\* the maximal leading run of statements that carry a directive value
Prologue(t) ==
    LET b == Body(t)
        n == CHOOSE k \in 0..Len(b) :
                 /\ \A j \in 1..k : Truthy(b[j].directive)
                 /\ k < Len(b) => ~Truthy(b[k + 1].directive)
    IN  SubSeq(b, 1, n)

PrologueValueSet(t) == {Prologue(t)[i].directive : i \in 1..Len(Prologue(t))}

\* the last run was the Presence Enforcer on a file it checks
EnforcerRan ==
    /\ report.rule = "require"
    /\ Create(filename, options) = "listen"

----------------------------------------------------------------------------
(* Claims about the Presence Enforcer, under Spec and SpecPass *)

C2_IgnoredNeverSatisfies ==
    (EnforcerRan /\ PrologueValueSet(prevText) \subseteq Range(options.ignoredDirectives))
        => (report.messageId = "addDirective" /\ report.fix # NoFix)

\* the offset just past the line terminator (\n, \r or \r\n) that ends the
\* first line of the text, the end of the text when there is none
PastFirstLine(t) ==
    LET e == LineEnd(t, 0)
    IN  IF e >= Len(t) THEN Len(t)
        ELSE IF t[e + 1] = "\r" /\ e + 2 <= Len(t) /\ t[e + 2] = "\n" THEN e + 2
        ELSE e + 1

\* the offset C3 names: past the shebang line, else the first token, else 0
ClaimedInsertionOffset(t) ==
    IF StartsWith(t, <<"#", "!">>) THEN PastFirstLine(t)
    ELSE IF Tokens(t) # <<>> THEN Tokens(t)[1].range[1] ELSE 0

\* C3: a rejected file gets exactly one zero-width insertion of
\* "<directive>";\n at the end of the shebang line, else at the first
\* non-comment token, else at offset 0, and no character of the text changes
C3_InsertionEdit ==
    (report.rule = "require" /\ report.messageId = "addDirective") =>
        LET p == ClaimedInsertionOffset(prevText)
        IN  /\ report.fix # NoFix
            /\ report.fix.range = <<p, p>>
            /\ report.fix.text = <<QUOTE>> \o options.directive \o <<QUOTE, ";", "\n">>
            /\ text = SubSeq(prevText, 1, p) \o report.fix.text
                      \o SubSeq(prevText, p + 1, Len(prevText))

\* C4: after one insertion the Presence Enforcer, run on the resulting text
\* with the same options, emits no further edit (refuted under SpecBoth,
\* where the options are the default ones, as well as under Spec)
C4_OneInsertionSuffices ==
    (report.rule = "require" /\ report.messageId = "addDirective")
        => RequireRule(filename, text, options).fix = NoFix

----------------------------------------------------------------------------
(* Claims about the two rules together, under SpecBoth *)

\* the range between the end of the last prologue entry and the next
\* statement, or the end of the file
GapRangeOf(t) ==
    LET P == Prologue(t)
        b == Body(t)
    IN  <<P[Len(P)].range[2],
          IF Len(P) < Len(b) THEN b[Len(P) + 1].range[1] ELSE Len(t)>>

\* the gap text with \r\n read as \n
GapOf(t) == NormalizeNewlines(Slice(t, GapRangeOf(t)[1], GapRangeOf(t)[2]))

\* the gap the mode asks for
WantedGap(m) == IF m = "always" THEN <<"\n", "\n">> ELSE <<"\n">>

\* the span before the first prologue entry is non-empty and all whitespace
LeadingSpanIsWhitespace(t) ==
    LET n == Prologue(t)[1].range[1]
    IN  n > 0 /\ \A i \in 1..n : t[i] \in WhiteSpace

\* neither rule emits an edit on the text
FixedPoint ==
    /\ RequireRule(filename, text, options).fix = NoFix
    /\ EmptyLineRule(text, mode).fix = NoFix

\* C5: when the Presence Enforcer finds no acceptable directive in the
\* input, applying its insertion and re-running both rules until neither
\* emits an edit ends in a file whose last prologue entry is the configured
\* directive (when the input had no directive) and whose gap after the
\* prologue is the one the mode asks for
C5_BothConverge ==
    (/\ report.rule # "none"
     /\ RequireRule(filename, origText, options).fix # NoFix
     /\ FixedPoint)
        => /\ Prologue(origText) = <<>>
                => Prologue(text)[Len(Prologue(text))].directive = options.directive
           /\ GapOf(text) = WantedGap(mode)

----------------------------------------------------------------------------
(* Claims about the Formatter, under SpecFmt *)

\* the last run was the Formatter on a file with a prologue and no
\* whitespace-only leading span
GapChecked ==
    /\ report.rule = "empty-line"
    /\ Prologue(prevText) # <<>>
    /\ ~LeadingSpanIsWhitespace(prevText)

\* C6: in mode always, on a file with a prologue and no whitespace-only
\* leading span, the Formatter emits no edit iff the gap, with \r\n read as
\* \n, is exactly "\n\n"; any other gap is reported expectedBlank with an
\* edit that replaces the whole gap by "\n\n"
C6_AlwaysGap ==
    (GapChecked /\ mode = "always") =>
        /\ (report.fix = NoFix) <=> (GapOf(prevText) = <<"\n", "\n">>)
        /\ report.fix # NoFix =>
              /\ report.messageId = "expectedBlank"
              /\ report.fix = [range |-> GapRangeOf(prevText), text |-> <<"\n", "\n">>]

\* C7: in mode never, on a file with a prologue and no whitespace-only
\* leading span, the Formatter emits no edit iff the gap, with \r\n read as
\* \n, is exactly one newline; any other gap is reported unexpectedBlank with
\* an edit that replaces the whole gap by "\n"
C7_NeverGap ==
    (GapChecked /\ mode = "never") =>
        /\ (report.fix = NoFix) <=> (GapOf(prevText) = <<"\n">>)
        /\ report.fix # NoFix =>
              /\ report.messageId = "unexpectedBlank"
              /\ report.fix = [range |-> GapRangeOf(prevText), text |-> <<"\n">>]

\* C8: on a file with a prologue the Formatter stops emitting edits after at
\* most two applications (one when there is no whitespace-only leading
\* span), and on the text it leaves the span before the first directive is
\* not non-empty whitespace and the gap is "\n\n" (always) or "\n" (never)
C8_FormatterConverges ==
    /\ fixes <= 2
    /\ (Prologue(origText) # <<>> /\ ~LeadingSpanIsWhitespace(origText)) => fixes <= 1
    /\ (report.rule = "empty-line" /\ report.fix = NoFix /\ Prologue(text) # <<>>)
          => /\ ~LeadingSpanIsWhitespace(text)
             /\ GapOf(text) = WantedGap(mode)

----------------------------------------------------------------------------
(* Claims about the path and extension filter, under SpecPath *)

\* the segments of a path, split at "/"
RECURSIVE Segments(_)
Segments(path) ==
    IF \A i \in 1..Len(path) : path[i] # "/" THEN <<path>>
    ELSE LET k == CHOOSE i \in 1..Len(path) :
                      path[i] = "/" /\ \A j \in 1..(i - 1) : path[j] # "/"
         IN  <<SubSeq(path, 1, k - 1)>> \o Segments(SubSeq(path, k + 1, Len(path)))

\* some directory on the path to the file is named node_modules
UnderNodeModules(path) ==
    \E i \in 1..(Len(Segments(path)) - 1) : Segments(path)[i] = NodeModulesDir

\* the file has no acceptable directive (default acceptance)
LacksUseDirective(t) ==
    ~\E v \in PrologueValueSet(t) : StartsWith(v, <<"u", "s", "e", " ">>)

\* a configured ignore pattern matches the path, or the extension is not
\* in the extension set
FilteredAsConfigured ==
    \/ PathMatchesAny(filename, CompilePatterns(options.ignore))
    \/ Ext(filename) \notin EffectiveExtensions(options.extensions)

\* C9: a real file path under a node_modules directory is never reported
\* and never edited when includeNodeModules is false, whatever the content;
\* when includeNodeModules is true the file is checked like any other,
\* subject only to the configured ignore patterns and the extension set
C9_NodeModules ==
    (report.rule = "require" /\ FilenameUsable(filename) /\ UnderNodeModules(filename)) =>
        /\ ~options.includeNodeModules =>
              (report.messageId = "none" /\ report.fix = NoFix /\ text = prevText)
        /\ options.includeNodeModules =>
              ((report.messageId = "addDirective")
                  <=> (~FilteredAsConfigured /\ LacksUseDirective(prevText)))

\* C9 witness: a file without a directive, under node_modules, that would be
\* checked were it elsewhere, has been run and is not reported
C9_Witness ==
    /\ report.rule = "require"
    /\ FilenameUsable(filename)
    /\ UnderNodeModules(filename)
    /\ ~options.includeNodeModules
    /\ ~FilteredAsConfigured
    /\ LacksUseDirective(prevText)
    /\ report.messageId = "none"

\* the last segment of a path
LastSegment(path) == Segments(path)[Len(Segments(path))]

\* the substring after the final "." of the final path segment, lower-cased
ExtAfterFinalDot(path) ==
    LET seg == LastSegment(path)
        dots == {i \in 1..Len(seg) : seg[i] = "."}
    IN  IF dots = {} THEN <<>>
        ELSE ToLowerCase(SubSeq(seg, (CHOOSE i \in dots : \A j \in dots : j <= i) + 1,
                                Len(seg)))

\* the configured extensions lower-cased when there are any, else jsx and tsx
ClaimedExtensionSet ==
    IF options.extensions # <<>>
    THEN {ToLowerCase(options.extensions[i]) : i \in 1..Len(options.extensions)}
    ELSE {<<"j", "s", "x">>, <<"t", "s", "x">>}

\* the last run was the Presence Enforcer on a real path no ignore pattern matches
NotIgnored ==
    /\ report.rule = "require"
    /\ FilenameUsable(filename)
    /\ ~PathMatchesAny(filename, CompilePatterns(EffectiveIgnorePatterns(options)))

\* the file is checked: the Program handler runs, so a file that lacks a
\* directive is reported
Checked ==
    /\ Create(filename, options) = "listen"
    /\ LacksUseDirective(prevText) => report.messageId = "addDirective"

\* C10 as stated: a real path no ignore pattern matches is checked iff the
\* lower-cased substring after the final "." of its final segment is in the
\* effective extension set
C10_ExtensionFilter ==
    NotIgnored => (Checked <=> ExtAfterFinalDot(filename) \in ClaimedExtensionSet)

\* the extension as the filter reads it: the substring after the final "."
\* when that substring is non-empty and made of letters and digits only,
\* and the empty string otherwise
ExtOfLettersAndDigits(path) ==
    LET e == ExtAfterFinalDot(path)
    IN  IF \A i \in 1..Len(e) : e[i] \in LowerAlnum THEN e ELSE <<>>

\* C10 amended: a real path no ignore pattern matches is checked iff its
\* extension, read as letters and digits only, is in the effective extension
\* set; the comparison ignores case on both sides
C10_ExtensionFilterAmended ==
    NotIgnored => (Checked <=> ExtOfLettersAndDigits(filename) \in ClaimedExtensionSet)

\* C10 witness: a file whose extension is written in upper case is checked
\* against a configured extension written in another case, and reported
C10_Witness ==
    /\ NotIgnored
    /\ LastSegment(filename) = <<"f", ".", "T", "s", "X">>
    /\ options.extensions = <<<<"T", "S", "X">>>>
    /\ report.messageId = "addDirective"

\* the name is no file path: empty, or beginning with "<"
Synthetic(fn) == fn = <<>> \/ Head(fn) = "<"

\* C11: for a synthetic file name (empty, or beginning with "<") the filter
\* lets the file through, so the Presence Enforcer's outcome is the same
\* under every ignore, extensions and includeNodeModules setting and is
\* decided by the prologue alone (the acceptance options being the default)
C11_VirtualFilename ==
    (report.rule = "require" /\ Synthetic(filename)) =>
        /\ Create(filename, options) = "listen"
        /\ \A o \in PathOptions :
              RequireRule(filename, prevText, o)
                  = [messageId |-> report.messageId, fix |-> report.fix]
        /\ (report.messageId = "addDirective") <=> LacksUseDirective(prevText)
        /\ (report.messageId = "none") <=> ~LacksUseDirective(prevText)

\* C11 witness: the name <i>, which has no extension, is run with an ignore
\* list and an extension list configured, and the file without a directive
\* is reported
C11_Witness ==
    /\ report.rule = "require"
    /\ filename = <<"<", "i", ">">>
    /\ options.ignore # <<>>
    /\ options.extensions = <<<<"j", "s">>>>
    /\ ~options.includeNodeModules
    /\ report.messageId = "addDirective"
    /\ text # prevText

----------------------------------------------------------------------------
(* Claims about the glob matcher, under SpecGlob *)

\* the text s[j+1..k] is a run of zero or more full path segments, each
\* with the separator that ends it
FullSegments(s, j, k) ==
    \/ k = j
    \/ /\ k > j
       /\ s[k] = "/"
       /\ j = 0 \/ s[j] = "/"

\* the reference glob semantics: whether the pattern g from index i on
\* matches the path s from offset j to its end
RECURSIVE RefGlobFrom(_, _, _, _)
RefGlobFrom(g, i, s, j) ==
    IF i > Len(g) THEN j = Len(s)
    ELSE IF g[i] = "*" /\ i + 1 <= Len(g) /\ g[i + 1] = "*"
         THEN LET e == LastStar(g, i)
              IN  IF e + 1 <= Len(g) /\ g[e + 1] = "/"
                  THEN \E k \in j..Len(s) :
                          FullSegments(s, j, k) /\ RefGlobFrom(g, e + 2, s, k)
                  ELSE \E k \in j..Len(s) : RefGlobFrom(g, e + 1, s, k)
    ELSE IF g[i] = "*"
         THEN \E k \in j..Len(s) :
                 /\ \A m \in (j + 1)..k : s[m] # "/"
                 /\ RefGlobFrom(g, i + 1, s, k)
    ELSE IF g[i] = "?"
         THEN j < Len(s) /\ s[j + 1] # "/" /\ RefGlobFrom(g, i + 1, s, j + 1)
    ELSE j < Len(s) /\ s[j + 1] = g[i] /\ RefGlobFrom(g, i + 1, s, j + 1)

RefGlobMatch(glob, path) == RefGlobFrom(glob, 1, path, 0)

\* C12: the compiled matcher agrees with the reference glob semantics on
\* every pattern and path: * is a run of non-separator characters, ? is one
\* non-separator character, **/ is zero or more full path segments, any
\* other character is itself, and the whole path is matched; so a file is
\* skipped exactly when the reference semantics match its path
C12_GlobReference ==
    report.rule = "require" =>
        /\ \A i \in 1..Len(options.ignore) :
              RegExpTest(GlobToRegExp(options.ignore[i]), filename)
                  <=> RefGlobMatch(options.ignore[i], filename)
        /\ (report.messageId = "none")
              <=> \E i \in 1..Len(options.ignore) :
                     RefGlobMatch(options.ignore[i], filename)

----------------------------------------------------------------------------
(* Claims about the prologue scan, under SpecPrologue *)

\* the maximal leading run of statements that carry a directive value,
\* whatever string the value is
ClaimedPrologue(t) ==
    LET b == Body(t)
        n == CHOOSE k \in 0..Len(b) :
                 /\ \A j \in 1..k : b[j].directive # NoDirective
                 /\ k < Len(b) => b[k + 1].directive = NoDirective
    IN  SubSeq(b, 1, n)

\* the range between the end of the last entry of that run and the next
\* statement, or the end of the file
ClaimedGapRange(t) ==
    LET P == ClaimedPrologue(t)
        b == Body(t)
    IN  <<P[Len(P)].range[2],
          IF Len(P) < Len(b) THEN b[Len(P) + 1].range[1] ELSE Len(t)>>

\* C13: both rules take for the prologue the maximal leading run of
\* statements that carry a directive value, the empty string included: the
\* Presence Enforcer (default options) accepts the file iff a value of that
\* run begins with "use ", and the Formatter emits no edit when the run is
\* empty and otherwise edits only the span before the first entry of the run
\* or the gap after its last entry
C13_PrologueScan ==
    LET P == ClaimedPrologue(prevText)
    IN  /\ report.rule = "require" =>
              ((report.fix = NoFix)
                  <=> \E i \in 1..Len(P) : StartsWith(P[i].directive, <<"u", "s", "e", " ">>))
        /\ report.rule = "empty-line" =>
              /\ P = <<>> => report.fix = NoFix
              /\ (P # <<>> /\ report.fix # NoFix) =>
                    report.fix.range \in {<<0, P[1].range[1]>>, ClaimedGapRange(prevText)}

----------------------------------------------------------------------------
(* Claims about setup, under SpecSetup *)

\* the last run raised the configuration error: no violation, no edit
Raised ==
    /\ report.messageId = "throw"
    /\ report.fix = NoFix
    /\ text = prevText

----------------------------------------------------------------------------
(* Further claims about the Formatter, under SpecFmt *)

\* the gap check alone would report the text
GapOutOfPolicy(t, m) == GapCheck(t, Body(t), FormatterDirectives(Body(t)), m) # NoReport

\* C15: in both modes, when the text before the first prologue entry is
\* non-empty and all whitespace, the Formatter emits one edit, the deletion
\* of the range from 0 to the start of the first directive, and the gap
\* after the last directive is left as it is, in or out of policy; and every
\* run of the Formatter changes the text by at most one edit
C15_LeadingShortCircuit ==
    report.rule = "empty-line" =>
        /\ (Prologue(prevText) # <<>> /\ LeadingSpanIsWhitespace(prevText)) =>
              LET start == Prologue(prevText)[1].range[1]
              IN  /\ report.fix = [range |-> <<0, start>>, text |-> <<>>]
                  /\ text = SubSeq(prevText, start + 1, Len(prevText))
        /\ \/ report.fix = NoFix /\ text = prevText
           \/ /\ report.fix # NoFix
              /\ text = SubSeq(prevText, 1, report.fix.range[1]) \o report.fix.text
                        \o SubSeq(prevText, report.fix.range[2] + 1, Len(prevText))

\* C15 witness: a file with whitespace before its first directive and a gap
\* that is out of policy too, after the Formatter has deleted the whitespace
C15_Witness ==
    /\ report.rule = "empty-line"
    /\ Prologue(prevText) # <<>>
    /\ LeadingSpanIsWhitespace(prevText)
    /\ GapOutOfPolicy(prevText, mode)
    /\ report.fix # NoFix
    /\ report.fix.range[1] = 0
    /\ report.fix.text = <<>>
    /\ GapOutOfPolicy(text, mode)

----------------------------------------------------------------------------
(* Claims about the edits of both rules, under SpecRange *)

\* C16: every edit either rule emits has a range with
\* 0 <= start <= end <= length of the text, also when some statements of
\* the statement list carry no range
C16_WellFormedEdits ==
    report.fix # NoFix =>
        /\ 0 <= report.fix.range[1]
        /\ report.fix.range[1] <= report.fix.range[2]
        /\ report.fix.range[2] <= Len(prevText)

----------------------------------------------------------------------------
(* Claims about the edits of one pass, under SpecPass *)

\* the edits the two rules emit for one text
EnforcerEdit(t) == RequireRule(filename, t, options).fix

FormatterEdit(t) == EmptyLineRule(t, mode).fix

\* C17: when both rules emit an edit for the text of one pass, the offset
\* of the Presence Enforcer's insertion is at or before the start, or at or
\* after the end, of the range the Formatter replaces
C17_NoProperOverlap ==
    (report.rule # "none"
     /\ EnforcerEdit(prevText) # NoFix
     /\ FormatterEdit(prevText) # NoFix)
        => \/ EnforcerEdit(prevText).range[1] <= FormatterEdit(prevText).range[1]
           \/ EnforcerEdit(prevText).range[1] >= FormatterEdit(prevText).range[2]

----------------------------------------------------------------------------
(* Claims about what the Formatter removes, under SpecFmt *)

\* the characters of a text that are no whitespace, in order
NonWhitespace(t) == Filter(t, Range(t) \ WhiteSpace)

\* C18: the text a Formatter edit removes is whitespace only, so the
\* non-whitespace characters of the file, those of a comment between the
\* last directive and the next statement among them, are the same before
\* and after the edit
C18_WhitespaceOnlyFixer ==
    (report.rule = "empty-line" /\ report.fix # NoFix) =>
        /\ \A i \in (report.fix.range[1] + 1)..report.fix.range[2] :
              prevText[i] \in WhiteSpace
        /\ NonWhitespace(text) = NonWhitespace(prevText)

====
